---- MODULE Spec2Model ----
(***************************************************************************)
(* A state-machine model of main.py: the start-up sequence of main(), the  *)
(* retrying API wrapper OciManager._execute_api_call, the existing-        *)
(* instance finder OciManager.check_for_existing_instance and the launch   *)
(* loop OciManager.launch_new_instance.  The provider (OCI) and the        *)
(* notification channels are the environment: every call draws its answer  *)
(* from a bounded set.                                                     *)
(***************************************************************************)
EXTENDS Integers, Sequences, FiniteSets, TLC

(***************************************************************************)
(* Bounds of the model.                                                    *)
(***************************************************************************)
\* launch_instance calls of one run
MaxLaunches == 3
\* retries inside _execute_api_call over one run
MaxApiRetries == 1
\* availability domains of the region
MaxAds == 3
\* instances listed by one list_instances call during a run
MaxListed == 2
\* instances listed to the finder when it is checked on its own
MaxInst == 3

(***************************************************************************)
(* Constants of the program.                                               *)
(***************************************************************************)
ARM_SHAPE == "VM.Standard.A1.Flex"
E2_MICRO_SHAPE == "VM.Standard.E2.1.Micro"
VALID_SHAPES == <<ARM_SHAPE, E2_MICRO_SHAPE>>

LOG_ERROR_FILE == "ERROR_IN_CONFIG.log"
INSTANCE_CREATED_FILE == "INSTANCE_CREATED"
UNHANDLED_ERROR_FILE == "UNHANDLED_ERROR.log"
IMAGES_LIST_FILE == "images_list.json"

\* a verification loop of one more round
POLL_ROUNDS_Six == 5 + 1

\* range(5) of the verification loop
POLL_ROUNDS == 5
\* time.sleep(60) of the verification loop
POLL_SLEEP == 60
\* the default of REQUEST_WAIT_TIME_SECS
DEFAULT_WAIT_TIME_SECS == 60

\* the states check_for_existing_instance accepts
ACCEPTED_STATES == {"RUNNING", "PROVISIONING", "STARTING"}

\* the statuses _execute_api_call retries
WRAPPER_RETRY_STATUS == {429, 500, 502, 503, 504}
\* the statuses the launch loop retries
LAUNCH_RETRY_STATUS == {429, 500, 502, 503, 504}

\* "Out of host capacity": a text is a sequence of words, and Python's `in`
\* is the search of a contiguous run of words
OUT_OF_HOST_CAPACITY == <<"Out", "of", "host", "capacity">>

(***************************************************************************)
(* Texts.                                                                  *)
(***************************************************************************)
Range(s) == {s[i] : i \in DOMAIN s}

\* needle in hay, for two str
Contains(needle, hay) ==
    \E i \in 0..(Len(hay) - Len(needle)) :
        SubSeq(hay, i + 1, i + Len(needle)) = needle

\* hay.endswith(suffix)
EndsWith(hay, suffix) ==
    /\ Len(suffix) <= Len(hay)
    /\ SubSeq(hay, Len(hay) - Len(suffix) + 1, Len(hay)) = suffix

(***************************************************************************)
(* Provider errors: oci.exceptions.ServiceError with status, code and      *)
(* message.  A response body without a message leaves message None, one    *)
(* without a code leaves code None.                                        *)
(***************************************************************************)
NoneText == <<"<None>">>
NoneCode == "<None>"

\* the statuses the provider answers with: one no code path retries, and two
\* of those the wrapper and the launch loop retry
Statuses == {400, 429, 503}
Codes == {"LimitExceeded", "TooManyRequests", "NotAuthorizedOrNotFound", NoneCode}
Messages ==
    { <<"InternalError:">> \o OUT_OF_HOST_CAPACITY \o <<"in", "AD">>,
      <<"Out", "of", "capacity">>,
      NoneText }

ServiceErrors == [status : Statuses, code : Codes, message : Messages]
\* the errors the listings and get_user are answered with
LookupErrors ==
    { e \in ServiceErrors : e.status \in {400, 503} }
NoError == [status |-> 0, code |-> "", message |-> <<>>]

(***************************************************************************)
(* Exceptions in flight.                                                   *)
(***************************************************************************)
NoException == [type |-> "None", text |-> "", error |-> NoError]
ServiceError(e) == [type |-> "ServiceError", text |-> "", error |-> e]
RuntimeError(text) == [type |-> "RuntimeError", text |-> text, error |-> NoError]
ValueError(text) == [type |-> "ValueError", text |-> text, error |-> NoError]
FileNotFoundError(text) == [type |-> "FileNotFoundError", text |-> text, error |-> NoError]
\* '"Out of host capacity" in None'
TypeError == [type |-> "TypeError", text |-> "argument of type 'NoneType' is not iterable", error |-> NoError]
\* socket errors of smtplib.SMTP(host, port): OSError, no SMTPException
OSError == [type |-> "OSError", text |-> "connection failed", error |-> NoError]

NO_ADS_TEXT == "No availability domains found matching patterns"
NO_SUBNET_TEXT == "No subnets found in the compartment. Please create one or specify OCI_SUBNET_ID."
NO_IMAGE_TEXT == "No image found for OS and version. Check images_list.json for available options."
VERIFICATION_TEXT == "Instance verification failed."
LIMIT_OTHER_TEXT == "LimitExceeded for a resource other than the target instance shape. Manual intervention required."
NOT_ACCEPTABLE_SHAPE_TEXT == "is not an acceptable shape"
ENV_NOT_FOUND_TEXT == "Environment file not found"

(***************************************************************************)
(* Instances, as list_instances reports them.  An instance's id is its     *)
(* place in the listing.                                                   *)
(***************************************************************************)
InstanceShapes == {ARM_SHAPE, E2_MICRO_SHAPE}
LifecycleStates ==
    {"PROVISIONING", "STARTING", "RUNNING", "STOPPING", "STOPPED", "TERMINATING", "TERMINATED"}
\* the states listed while a run is followed
ListedStates == {"RUNNING", "TERMINATED"}

None == [id |-> 0, shape |-> "", lifecycle_state |-> ""]

\* a listing of Len(f) instances, f[i] the shape and the state of the i-th
Listing(f) ==
    [i \in DOMAIN f |-> [id |-> i, shape |-> f[i][1], lifecycle_state |-> f[i][2]]]

(***************************************************************************)
(* OciManager.check_for_existing_instance, on the listing it was given.    *)
(***************************************************************************)
\* a finder that does not look at the lifecycle state
IsTarget_AnyState(inst, cfg) == inst.shape = cfg.compute_shape

IsTarget(inst, cfg) ==
    /\ inst.shape = cfg.compute_shape
    /\ inst.lifecycle_state \in ACCEPTED_STATES

\* a finder that takes the second of the instances it kept, not the last
check_for_existing_instance_Second(listing, cfg) ==
    LET target_instances == SelectSeq(listing, LAMBDA inst : IsTarget(inst, cfg))
    IN  IF cfg.compute_shape = ARM_SHAPE /\ target_instances # <<>>
            THEN target_instances[1]
        ELSE IF cfg.compute_shape = E2_MICRO_SHAPE
                /\ cfg.is_second_micro_instance /\ Len(target_instances) >= 2
            THEN target_instances[2]
        ELSE IF cfg.compute_shape = E2_MICRO_SHAPE
                /\ ~cfg.is_second_micro_instance /\ Len(target_instances) >= 1
            THEN target_instances[1]
        ELSE None

check_for_existing_instance(listing, cfg) ==
    LET target_instances == SelectSeq(listing, LAMBDA inst : IsTarget(inst, cfg))
    IN  IF cfg.compute_shape = ARM_SHAPE /\ target_instances # <<>>
            THEN target_instances[1]
        ELSE IF cfg.compute_shape = E2_MICRO_SHAPE
                /\ cfg.is_second_micro_instance /\ Len(target_instances) >= 2
            THEN target_instances[Len(target_instances)]
        ELSE IF cfg.compute_shape = E2_MICRO_SHAPE
                /\ ~cfg.is_second_micro_instance /\ Len(target_instances) >= 1
            THEN target_instances[1]
        ELSE None

(***************************************************************************)
(* The except clause of OciManager._execute_api_call: what it does with a  *)
(* ServiceError.  Python's `or` stops at the first true operand, so the    *)
(* message is searched only when status and code did not decide.           *)
(***************************************************************************)
\* a wrapper that does not search the message, as the launch loop does
WrapperBranch_StatusOnly(e) ==
    IF e.status \in WRAPPER_RETRY_STATUS \/ e.code = "TooManyRequests" THEN "retry"
    ELSE "raise"

WrapperBranch(e) ==
    IF e.status \in WRAPPER_RETRY_STATUS \/ e.code = "TooManyRequests" THEN "retry"
    ELSE IF e.message = NoneText THEN "TypeError"
    ELSE IF Contains(OUT_OF_HOST_CAPACITY, e.message) THEN "retry"
    ELSE IF e.code = "LimitExceeded" THEN "raise"
    ELSE "raise"

(***************************************************************************)
(* The except clause of OciManager.launch_new_instance.                    *)
(***************************************************************************)
\* an except clause that tests the retry condition before LimitExceeded
LaunchErrorBranch_RetryFirst(e) ==
    IF e.status \in LAUNCH_RETRY_STATUS \/ e.code = "TooManyRequests" THEN "retry"
    ELSE IF e.message = NoneText THEN "TypeError"
    ELSE IF Contains(OUT_OF_HOST_CAPACITY, e.message) THEN "retry"
    ELSE IF e.code = "LimitExceeded" THEN "quota"
    ELSE "raise"

\* an except clause that does not search the message
LaunchErrorBranch_CapacityFatal(e) ==
    IF e.code = "LimitExceeded" THEN "quota"
    ELSE IF e.status \in LAUNCH_RETRY_STATUS \/ e.code = "TooManyRequests" THEN "retry"
    ELSE IF e.message = NoneText THEN "TypeError"
    ELSE "raise"

\* an except clause that retries every error but LimitExceeded
LaunchErrorBranch_FatalRetried(e) ==
    IF e.code = "LimitExceeded" THEN "quota"
    ELSE IF e.status \in LAUNCH_RETRY_STATUS \/ e.code = "TooManyRequests" THEN "retry"
    ELSE IF e.message = NoneText THEN "TypeError"
    ELSE "retry"

LaunchErrorBranch(e) ==
    IF e.code = "LimitExceeded" THEN "quota"
    ELSE IF e.status \in LAUNCH_RETRY_STATUS \/ e.code = "TooManyRequests" THEN "retry"
    ELSE IF e.message = NoneText THEN "TypeError"
    ELSE IF Contains(OUT_OF_HOST_CAPACITY, e.message) THEN "retry"
    ELSE "raise"

\* a LimitExceeded handler that returns whatever the finder answered
QuotaBranch_Return(found) == "return"

\* what the handler of LimitExceeded does with the finder's answer
QuotaBranch(found) == IF found # None THEN "return" ELSE "raise"

\* what the verification loop does with the finder's answer
PollBranch(found) == IF found # None THEN "return" ELSE "sleep"

\* a main that launches whatever the finder answered
StartupBranch_Launch(found) == "launch"

\* what main does with the finder's answer at start-up
StartupBranch(found) == IF found # None THEN "exit" ELSE "launch"

(***************************************************************************)
(* Availability domains.                                                   *)
(***************************************************************************)
AdName(i) == <<"Uocm:PHX", "AD", ToString(i)>>
Region == [i \in 1..MaxAds |-> AdName(i)]
\* what list_availability_domains may answer: the first domains of the region
AdListings == {SubSeq(Region, 1, j) : j \in 0..MaxAds}
\* OCT_FREE_AD, split at the commas
FreeAdLists ==
    { <<<<"AD", ToString(MaxAds)>>>>, [i \in 1..MaxAds |-> <<"AD", ToString(MaxAds + 1 - i)>>] }

find_availability_domains(all_ads, free_ad_list) ==
    SelectSeq(all_ads, LAMBDA ad : \E free_ad \in Range(free_ad_list) : EndsWith(ad, free_ad))

\* a launch_new_instance that does not look at the domains it found
AdsBranch_GoOn(found_ads) == "go_on"

\* launch_new_instance with no availability domain
AdsBranch(found_ads) == IF found_ads = <<>> THEN "raise" ELSE "go_on"

\* a cycler that gives the same element again
CyclerAdvance_Stuck(domains, pos) == pos

\* itertools.cycle(ads): the cycler is the place of the element next() gives
CyclerValue(domains, pos) == domains[pos + 1]
CyclerAdvance(domains, pos) == (pos + 1) % Len(domains)

(***************************************************************************)
(* Subnets and images.                                                     *)
(***************************************************************************)
CONFIG_OS == "Canonical Ubuntu"
CONFIG_OS_VERSION == "22.04"
SubnetListings == { <<>>, <<"subnet-1", "subnet-2">> }
Image(id, os, ver) == [id |-> id, operating_system |-> os, operating_system_version |-> ver]
ImageListings ==
    { <<>>,
      <<Image("image-1", "Oracle Linux", "9")>>,
      <<Image("image-1", "Oracle Linux", "9"), Image("image-2", CONFIG_OS, CONFIG_OS_VERSION)>> }

MatchingImages(images) ==
    SelectSeq(images, LAMBDA image : image.operating_system = CONFIG_OS
                                     /\ image.operating_system_version = CONFIG_OS_VERSION)

\* LaunchInstanceShapeConfigDetails
shape_config(shape) ==
    IF shape = ARM_SHAPE THEN [ocpus |-> 4, memory_in_gbs |-> 24]
    ELSE [ocpus |-> 1, memory_in_gbs |-> 1]

\* DISPLAY_NAME, ASSIGN_PUBLIC_IP, BOOT_VOLUME_SIZE and the public key read
\* from SSH_AUTHORIZED_KEYS_FILE: the same in every run followed
CONFIG_DISPLAY_NAME == "free-instance"
CONFIG_ASSIGN_PUBLIC_IP == FALSE
CONFIG_BOOT_VOLUME_SIZE == 50
SSH_PUBLIC_KEY == "ssh-rsa AAAA"

NoDetails ==
    [shape |-> "", display_name |-> "", subnet_id |-> "", image_id |-> "",
     availability_domain |-> <<>>, assign_public_ip |-> FALSE,
     boot_volume_size_in_gbs |-> 0, ssh_authorized_keys |-> "",
     shape_config |-> [ocpus |-> 0, memory_in_gbs |-> 0]]

LaunchInstanceDetails(cfg, subnet, image, ad) ==
    [shape |-> cfg.compute_shape, display_name |-> CONFIG_DISPLAY_NAME,
     subnet_id |-> subnet, image_id |-> image, availability_domain |-> ad,
     assign_public_ip |-> CONFIG_ASSIGN_PUBLIC_IP,
     boot_volume_size_in_gbs |-> CONFIG_BOOT_VOLUME_SIZE,
     ssh_authorized_keys |-> SSH_PUBLIC_KEY,
     shape_config |-> shape_config(cfg.compute_shape)]

\* a loop turn that builds the details anew and leaves out what was looked up
WithAvailabilityDomain_Rebuilt(details, ad) ==
    [NoDetails EXCEPT !.shape = details.shape, !.availability_domain = ad]

\* launch_details.availability_domain = next(ad_cycler)
WithAvailabilityDomain(details, ad) == [details EXCEPT !.availability_domain = ad]

(***************************************************************************)
(* Configurations.  OCT_FREE_AD and the presence of the env file are read  *)
(* once in a run, and are drawn where they are read.                       *)
(***************************************************************************)
ConfigShapes == {ARM_SHAPE, E2_MICRO_SHAPE, "VM.Standard.E4.Flex"}
WaitTimes == {30, DEFAULT_WAIT_TIME_SECS}
ConfigRecords ==
    [compute_shape : ConfigShapes, is_second_micro_instance : BOOLEAN,
     wait_time_secs : WaitTimes, notify_email : BOOLEAN, notify_telegram : BOOLEAN,
     subnet_id : {"", "subnet-1"}, image_id : {"", "image-2"}]
\* the configurations a run is followed under: both notification channels are
\* set up, or none; OCI_SUBNET_ID and OCI_IMAGE_ID are both given, or none;
\* SECOND_MICRO_INSTANCE is set with the micro shape only
Configs ==
    { c \in ConfigRecords :
        /\ c.notify_email = c.notify_telegram
        /\ (c.subnet_id = "") = (c.image_id = "")
        /\ c.is_second_micro_instance => c.compute_shape = E2_MICRO_SHAPE }

VARIABLES
    config,          \* the Config main loaded
    pc,              \* where main, or the method it is in, stands
    sleeping,        \* inside time.sleep of _execute_api_call
    notifier,        \* main's notifier is set
    ads,             \* launch_new_instance: ads
    ad_cycler,       \* launch_new_instance: ad_cycler
    subnet_id,       \* launch_new_instance: subnet_id
    image_id,        \* launch_new_instance: image_id
    launch_details,  \* launch_new_instance: launch_details
    instances,       \* check_for_existing_instance: instances, kept where the finder is followed on its own
    instance,        \* the finder's latest answer
    poll,            \* rounds of the verification loop done
    exc,             \* the exception in flight, or the one main handled
    lastErr,         \* the ServiceError the latest step's call was answered with
    launched,        \* the launch_instance calls made: availability domain and what came of it
    called,          \* the provider methods called so far
    apiRetries,      \* retries of _execute_api_call so far
    clock,           \* time slept so far
    files,           \* files written
    marker,          \* the instance INSTANCE_CREATED describes
    report,          \* the exception the error file describes
    exitCode,        \* the exit code of the process, -1 while it runs
    op,              \* the provider method the latest step called, "" if none
    quotaAt,         \* the launch_instance call answered with code LimitExceeded, 0 if none
    foundAt          \* the step whose finder answer ended the search, "" if none

vars == <<config, pc, sleeping, notifier, ads, ad_cycler, subnet_id, image_id,
          launch_details, instances, instance, poll, exc, lastErr, launched, called,
          apiRetries, clock, files, marker, report, exitCode, op, quotaAt, foundAt>>

\* the process starts
Start ==
    /\ pc = "load_config"
    /\ sleeping = FALSE
    /\ notifier = FALSE
    /\ ads = <<>>
    /\ ad_cycler = 0
    /\ subnet_id = ""
    /\ image_id = ""
    /\ launch_details = NoDetails
    /\ instances = <<>>
    /\ instance = None
    /\ poll = 0
    /\ exc = NoException
    /\ lastErr = NoError
    /\ launched = <<>>
    /\ called = {}
    /\ apiRetries = 0
    /\ clock = 0
    /\ files = {}
    /\ marker = None
    /\ report = NoException
    /\ exitCode = -1
    /\ op = ""
    /\ quotaAt = 0
    /\ foundAt = ""

Init == config \in Configs /\ Start

(***************************************************************************)
(* Steps shared by the actions.                                            *)
(***************************************************************************)
engine == <<ads, ad_cycler, subnet_id, image_id, launch_details, poll, launched>>
outputs == <<files, marker, report, exitCode>>
history == <<quotaAt, foundAt>>

Called(method) == called' = called \cup {method} /\ op' = method

\* an exception leaves for the except clauses of main
Raise(e) ==
    /\ exc' = e
    /\ pc' = "except"

\* Notifier.send: the e-mail goes first; _send_email catches SMTPException and
\* _send_telegram catches RequestException, and nothing else
EmailOutcomes == {"sent", "SMTPException", "OSError"}
TelegramOutcomes == {"sent", "RequestException"}
SendRaises(cfg, email) == cfg.notify_email /\ email = "OSError"

\* _execute_api_call met ServiceError e in a call of method
ApiFails(method, e) ==
    /\ Called(method)
    /\ lastErr' = e
    /\ CASE WrapperBranch(e) = "retry" ->
              /\ apiRetries < MaxApiRetries
              /\ apiRetries' = apiRetries + 1
              /\ sleeping' = TRUE
              /\ UNCHANGED <<pc, exc>>
         [] WrapperBranch(e) = "raise" ->
              /\ Raise(ServiceError(e))
              /\ UNCHANGED <<apiRetries, sleeping>>
         [] OTHER ->
              /\ Raise(TypeError)
              /\ UNCHANGED <<apiRetries, sleeping>>

\* the except clause of launch_new_instance met ServiceError e
LaunchExcept(e) ==
    CASE LaunchErrorBranch(e) = "quota" -> pc' = "quota_check" /\ exc' = exc
      [] LaunchErrorBranch(e) = "retry" -> pc' = "retry_sleep" /\ exc' = exc
      [] LaunchErrorBranch(e) = "raise" -> Raise(ServiceError(e))
      [] OTHER -> Raise(TypeError)

(***************************************************************************)
(* main, up to the launch.                                                 *)
(***************************************************************************)
LoadConfig ==
    /\ UNCHANGED history
    /\ op' = ""
    /\ pc = "load_config"
    /\ \E env_file \in BOOLEAN :
         IF ~env_file
           THEN Raise(FileNotFoundError(ENV_NOT_FOUND_TEXT)) /\ notifier' = FALSE
         ELSE IF config.compute_shape \notin Range(VALID_SHAPES)
           THEN Raise(ValueError(NOT_ACCEPTABLE_SHAPE_TEXT)) /\ notifier' = FALSE
         ELSE pc' = "notify_start" /\ notifier' = TRUE /\ exc' = exc
    /\ lastErr' = NoError
    /\ UNCHANGED <<config, sleeping, engine, instances, instance, called, apiRetries,
                   clock, outputs>>

NotifyStart ==
    /\ UNCHANGED history
    /\ op' = ""
    /\ pc = "notify_start"
    /\ \E email \in EmailOutcomes, telegram \in TelegramOutcomes :
         IF SendRaises(config, email) THEN Raise(OSError)
         ELSE pc' = "oci_manager" /\ exc' = exc
    /\ lastErr' = NoError
    /\ UNCHANGED <<config, sleeping, notifier, engine, instances, instance, called,
                   apiRetries, clock, outputs>>

\* time.sleep(wait_time_secs) of _execute_api_call, and its continue
WrapperSleep ==
    /\ UNCHANGED history
    /\ op' = ""
    /\ sleeping
    /\ sleeping' = FALSE
    /\ clock' = clock + config.wait_time_secs
    /\ lastErr' = NoError
    /\ UNCHANGED <<config, pc, notifier, engine, instances, instance, exc, called,
                   apiRetries, outputs>>

\* OciManager.__init__: get_user
InitOciManager ==
    /\ UNCHANGED history
    /\ pc = "oci_manager" /\ ~sleeping
    /\ \/ /\ Called("get_user")
          /\ pc' = "startup_check"
          /\ lastErr' = NoError
          /\ UNCHANGED <<exc, apiRetries, sleeping>>
       \/ \E e \in LookupErrors : ApiFails("get_user", e)
    /\ UNCHANGED <<config, notifier, engine, instances, instance, clock, outputs>>

StartupCheck ==
    /\ quotaAt' = quotaAt
    /\ pc = "startup_check" /\ ~sleeping
    /\ \/ \E k \in 0..MaxListed : \E f \in [1..k -> InstanceShapes \X ListedStates] :
            LET found == check_for_existing_instance(Listing(f), config)
            IN  /\ Called("list_instances")
                /\ instance' = found
                /\ IF StartupBranch(found) = "exit"
                     THEN /\ files' = files \cup {INSTANCE_CREATED_FILE}
                          /\ marker' = found
                          /\ pc' = "notify_found"
                          /\ foundAt' = "startup"
                     ELSE /\ pc' = "find_ads"
                          /\ UNCHANGED <<files, marker, foundAt>>
                /\ lastErr' = NoError
                /\ UNCHANGED <<exc, apiRetries, sleeping>>
       \/ /\ \E e \in LookupErrors : ApiFails("list_instances", e)
          /\ UNCHANGED <<instance, files, marker, foundAt>>
    /\ UNCHANGED <<config, notifier, engine, instances, clock, report, exitCode>>

NotifyFound ==
    /\ UNCHANGED history
    /\ op' = ""
    /\ pc = "notify_found"
    /\ \E email \in EmailOutcomes, telegram \in TelegramOutcomes :
         IF SendRaises(config, email) THEN Raise(OSError) /\ exitCode' = exitCode
         ELSE pc' = "done" /\ exitCode' = 0 /\ exc' = exc
    /\ lastErr' = NoError
    /\ UNCHANGED <<config, sleeping, notifier, engine, instances, instance, called,
                   apiRetries, clock, files, marker, report>>

(***************************************************************************)
(* OciManager.launch_new_instance.                                         *)
(***************************************************************************)
FindAvailabilityDomains ==
    /\ UNCHANGED history
    /\ pc = "find_ads" /\ ~sleeping
    /\ \/ \E all_ads \in AdListings, free_ad_list \in FreeAdLists :
            LET found_ads == find_availability_domains(all_ads, free_ad_list)
            IN  /\ Called("list_availability_domains")
                /\ ads' = found_ads
                /\ IF AdsBranch(found_ads) = "raise"
                     THEN Raise(RuntimeError(NO_ADS_TEXT))
                     ELSE pc' = "find_subnet" /\ exc' = exc
                /\ lastErr' = NoError
                /\ UNCHANGED <<apiRetries, sleeping>>
       \/ /\ \E e \in LookupErrors : ApiFails("list_availability_domains", e)
          /\ UNCHANGED ads
    /\ ad_cycler' = 0
    /\ UNCHANGED <<config, notifier, subnet_id, image_id, launch_details, poll, launched,
                   instances, instance, clock, outputs>>

FindSubnetId ==
    /\ UNCHANGED history
    /\ pc = "find_subnet" /\ ~sleeping
    /\ \/ /\ config.subnet_id # ""
          /\ subnet_id' = config.subnet_id
          /\ pc' = "find_image"
          /\ lastErr' = NoError
          /\ op' = ""
          /\ UNCHANGED <<exc, called, apiRetries, sleeping>>
       \/ /\ config.subnet_id = ""
          /\ \E subnets \in SubnetListings :
               /\ Called("list_subnets")
               /\ IF subnets = <<>>
                    THEN Raise(RuntimeError(NO_SUBNET_TEXT)) /\ subnet_id' = subnet_id
                    ELSE subnet_id' = subnets[1] /\ pc' = "find_image" /\ exc' = exc
               /\ lastErr' = NoError
               /\ UNCHANGED <<apiRetries, sleeping>>
       \/ /\ config.subnet_id = ""
          /\ \E e \in LookupErrors : ApiFails("list_subnets", e)
          /\ UNCHANGED subnet_id
    /\ UNCHANGED <<config, notifier, ads, ad_cycler, image_id, launch_details, poll,
                   launched, instances, instance, clock, outputs>>

FindImageId ==
    /\ UNCHANGED history
    /\ pc = "find_image" /\ ~sleeping
    /\ \/ /\ config.image_id # ""
          /\ image_id' = config.image_id
          /\ pc' = "build"
          /\ lastErr' = NoError
          /\ op' = ""
          /\ UNCHANGED <<exc, called, apiRetries, sleeping, files>>
       \/ /\ config.image_id = ""
          /\ \E images \in ImageListings :
               /\ Called("list_images")
               /\ files' = files \cup {IMAGES_LIST_FILE}
               /\ IF MatchingImages(images) = <<>>
                    THEN Raise(RuntimeError(NO_IMAGE_TEXT)) /\ image_id' = image_id
                    ELSE /\ image_id' = MatchingImages(images)[1].id
                         /\ pc' = "build"
                         /\ exc' = exc
               /\ lastErr' = NoError
               /\ UNCHANGED <<apiRetries, sleeping>>
       \/ /\ config.image_id = ""
          /\ \E e \in LookupErrors : ApiFails("list_images", e)
          /\ UNCHANGED <<image_id, files>>
    /\ UNCHANGED <<config, notifier, ads, ad_cycler, subnet_id, launch_details, poll,
                   launched, instances, instance, clock, marker, report, exitCode>>

\* the launch details, with availability_domain=next(ad_cycler)
BuildLaunchDetails ==
    /\ UNCHANGED history
    /\ op' = ""
    /\ pc = "build"
    /\ launch_details' =
         LaunchInstanceDetails(config, subnet_id, image_id, CyclerValue(ads, ad_cycler))
    /\ ad_cycler' = CyclerAdvance(ads, ad_cycler)
    /\ pc' = "attempt"
    /\ lastErr' = NoError
    /\ UNCHANGED <<config, sleeping, notifier, ads, subnet_id, image_id, poll, launched,
                   instances, instance, exc, called, apiRetries, clock, outputs>>

\* one turn of the while loop: the next availability domain and launch_instance,
\* which is not called through _execute_api_call
LaunchInstance ==
    /\ foundAt' = foundAt
    /\ pc = "attempt"
    /\ Len(launched) < MaxLaunches
    /\ LET ad == CyclerValue(ads, ad_cycler)
       IN  /\ launch_details' = WithAvailabilityDomain(launch_details, ad)
           /\ ad_cycler' = CyclerAdvance(ads, ad_cycler)
           /\ Called("launch_instance")
           /\ \/ /\ launched' = Append(launched, [ad |-> ad, result |-> "accepted"])
                 /\ pc' = "verify"
                 /\ lastErr' = NoError
                 /\ exc' = exc
                 /\ quotaAt' = quotaAt
              \/ \E e \in ServiceErrors :
                   /\ quotaAt' = IF e.code = "LimitExceeded" /\ quotaAt = 0
                                   THEN Len(launched) + 1 ELSE quotaAt
                   /\ LaunchErrorBranch(e) = "retry" => Len(launched) + 1 < MaxLaunches
                   /\ launched' = Append(launched, [ad |-> ad, result |-> LaunchErrorBranch(e)])
                   /\ lastErr' = e
                   /\ LaunchExcept(e)
    /\ poll' = 0
    /\ UNCHANGED <<config, sleeping, notifier, ads, subnet_id, image_id, instances,
                   instance, apiRetries, clock, outputs>>

\* a launch loop that waits the 60 of the verification loop
RetrySleep_FixedWait ==
    /\ UNCHANGED history
    /\ op' = ""
    /\ pc = "retry_sleep"
    /\ clock' = clock + POLL_SLEEP
    /\ pc' = "attempt"
    /\ lastErr' = NoError
    /\ UNCHANGED <<config, sleeping, notifier, engine, instances, instance, exc, called,
                   apiRetries, outputs>>

\* time.sleep(wait_time_secs) of the launch loop, and its continue
RetrySleep ==
    /\ UNCHANGED history
    /\ op' = ""
    /\ pc = "retry_sleep"
    /\ clock' = clock + config.wait_time_secs
    /\ pc' = "attempt"
    /\ lastErr' = NoError
    /\ UNCHANGED <<config, sleeping, notifier, engine, instances, instance, exc, called,
                   apiRetries, outputs>>

\* one check_for_existing_instance of the verification loop; a ServiceError it
\* lets through is met by the except clause of launch_new_instance
VerifyPoll ==
    /\ quotaAt' = quotaAt
    /\ pc = "verify" /\ ~sleeping
    /\ \/ \E k \in 0..MaxListed : \E f \in [1..k -> InstanceShapes \X ListedStates] :
            LET found == check_for_existing_instance(Listing(f), config)
            IN  /\ Called("list_instances")
                /\ instance' = found
                /\ pc' = IF PollBranch(found) = "return" THEN "created" ELSE "verify_sleep"
                /\ foundAt' = IF PollBranch(found) = "return" THEN "verify" ELSE foundAt
                /\ lastErr' = NoError
                /\ UNCHANGED <<exc, apiRetries, sleeping>>
       \/ \E e \in LookupErrors :
            /\ Called("list_instances")
            /\ lastErr' = e
            /\ UNCHANGED <<instance, foundAt>>
            /\ CASE WrapperBranch(e) = "retry" ->
                      /\ apiRetries < MaxApiRetries
                      /\ apiRetries' = apiRetries + 1
                      /\ sleeping' = TRUE
                      /\ UNCHANGED <<pc, exc>>
                 [] WrapperBranch(e) = "raise" ->
                      /\ LaunchExcept(e)
                      /\ UNCHANGED <<apiRetries, sleeping>>
                 [] OTHER ->
                      /\ Raise(TypeError)
                      /\ UNCHANGED <<apiRetries, sleeping>>
    /\ UNCHANGED <<config, notifier, engine, instances, clock, outputs>>

\* time.sleep(60) of the verification loop; after the last round, the RuntimeError
VerifySleep ==
    /\ UNCHANGED history
    /\ op' = ""
    /\ pc = "verify_sleep"
    /\ clock' = clock + POLL_SLEEP
    /\ poll' = poll + 1
    /\ IF poll + 1 >= POLL_ROUNDS
         THEN Raise(RuntimeError(VERIFICATION_TEXT))
         ELSE pc' = "verify" /\ exc' = exc
    /\ lastErr' = NoError
    /\ UNCHANGED <<config, sleeping, notifier, ads, ad_cycler, subnet_id, image_id,
                   launch_details, launched, instances, instance, called, apiRetries,
                   outputs>>

\* the LimitExceeded handler: check_for_existing_instance, inside the except clause
QuotaCheck ==
    /\ quotaAt' = quotaAt
    /\ pc = "quota_check" /\ ~sleeping
    /\ \/ \E k \in 0..MaxListed : \E f \in [1..k -> InstanceShapes \X ListedStates] :
            LET found == check_for_existing_instance(Listing(f), config)
            IN  /\ Called("list_instances")
                /\ instance' = found
                /\ IF QuotaBranch(found) = "return"
                     THEN pc' = "created" /\ exc' = exc /\ foundAt' = "quota"
                     ELSE Raise(RuntimeError(LIMIT_OTHER_TEXT)) /\ foundAt' = foundAt
                /\ lastErr' = NoError
                /\ UNCHANGED <<apiRetries, sleeping>>
       \/ /\ \E e \in LookupErrors : ApiFails("list_instances", e)
          /\ UNCHANGED <<instance, foundAt>>
    /\ UNCHANGED <<config, notifier, engine, instances, clock, outputs>>

(***************************************************************************)
(* main, after launch_new_instance.                                        *)
(***************************************************************************)
\* launch_new_instance returned an instance: create_instance_success_files
Created ==
    /\ UNCHANGED history
    /\ op' = ""
    /\ pc = "created"
    /\ files' = files \cup {INSTANCE_CREATED_FILE}
    /\ marker' = instance
    /\ pc' = "notify_created"
    /\ lastErr' = NoError
    /\ UNCHANGED <<config, sleeping, notifier, engine, instances, instance, exc, called,
                   apiRetries, clock, report, exitCode>>

\* the last notification; main returns after it
NotifyCreated ==
    /\ UNCHANGED history
    /\ op' = ""
    /\ pc = "notify_created"
    /\ \E email \in EmailOutcomes, telegram \in TelegramOutcomes :
         IF SendRaises(config, email) THEN Raise(OSError) /\ exitCode' = exitCode
         ELSE pc' = "done" /\ exitCode' = 0 /\ exc' = exc
    /\ lastErr' = NoError
    /\ UNCHANGED <<config, sleeping, notifier, engine, instances, instance, called,
                   apiRetries, clock, files, marker, report>>

CONTROLLED == {"ValueError", "FileNotFoundError", "RuntimeError"}

\* after the error file is written: the notification if there is a notifier, and exit(1)
AfterErrorFile ==
    IF notifier THEN pc' = "notify_failure" /\ exitCode' = exitCode
    ELSE pc' = "done" /\ exitCode' = 1

\* except (ValueError, FileNotFoundError, RuntimeError)
ExceptControlled ==
    /\ UNCHANGED history
    /\ op' = ""
    /\ pc = "except"
    /\ exc.type \in CONTROLLED
    /\ files' = files \cup {LOG_ERROR_FILE}
    /\ report' = exc
    /\ AfterErrorFile
    /\ lastErr' = NoError
    /\ UNCHANGED <<config, sleeping, notifier, engine, instances, instance, exc, called,
                   apiRetries, clock, marker>>

\* except Exception
ExceptUnhandled ==
    /\ UNCHANGED history
    /\ op' = ""
    /\ pc = "except"
    /\ exc.type \notin CONTROLLED
    /\ files' = files \cup {UNHANDLED_ERROR_FILE}
    /\ report' = exc
    /\ AfterErrorFile
    /\ lastErr' = NoError
    /\ UNCHANGED <<config, sleeping, notifier, engine, instances, instance, exc, called,
                   apiRetries, clock, marker>>

\* the notification of an except clause, and sys.exit(1); an exception of the
\* notification leaves main, and the interpreter exits with 1
NotifyFailure ==
    /\ UNCHANGED history
    /\ op' = ""
    /\ pc = "notify_failure"
    /\ \E email \in EmailOutcomes, telegram \in TelegramOutcomes :
         exc' = IF SendRaises(config, email) THEN OSError ELSE exc
    /\ pc' = "done"
    /\ exitCode' = 1
    /\ lastErr' = NoError
    /\ UNCHANGED <<config, sleeping, notifier, engine, instances, instance, called,
                   apiRetries, clock, files, marker, report>>

Next ==
    \/ LoadConfig
    \/ NotifyStart
    \/ WrapperSleep
    \/ InitOciManager
    \/ StartupCheck
    \/ NotifyFound
    \/ FindAvailabilityDomains
    \/ FindSubnetId
    \/ FindImageId
    \/ BuildLaunchDetails
    \/ LaunchInstance
    \/ RetrySleep
    \/ VerifyPoll
    \/ VerifySleep
    \/ QuotaCheck
    \/ Created
    \/ NotifyCreated
    \/ ExceptControlled
    \/ ExceptUnhandled
    \/ NotifyFailure

Spec == Init /\ [][Next]_vars

(***************************************************************************)
(* The finder on its own: every listing of up to MaxInst instances, under  *)
(* both shapes and both settings of SECOND_MICRO_INSTANCE.                 *)
(***************************************************************************)
FinderInit ==
    /\ config \in { c \in ConfigRecords :
                       /\ c.compute_shape \in Range(VALID_SHAPES)
                       /\ c.wait_time_secs = DEFAULT_WAIT_TIME_SECS
                       /\ ~c.notify_email /\ ~c.notify_telegram
                       /\ c.subnet_id = "" /\ c.image_id = "" }
    /\ Start

ListInstances ==
    /\ pc = "load_config"
    /\ \E k \in 0..MaxInst : \E f \in [1..k -> InstanceShapes \X LifecycleStates] :
         /\ instances' = Listing(f)
         /\ instance' = check_for_existing_instance(Listing(f), config)
    /\ Called("list_instances")
    /\ pc' = "finder_done"
    /\ UNCHANGED <<quotaAt, foundAt>>
    /\ UNCHANGED <<config, sleeping, notifier, engine, exc, lastErr, apiRetries, clock,
                   outputs>>

FinderNext == ListInstances

FinderSpec == FinderInit /\ [][FinderNext]_vars

(***************************************************************************)
(* The process interrupted from outside.  The program installs no signal   *)
(* handler and takes no cancellation argument: what reaches a run from     *)
(* outside is SIGINT, which Python raises as KeyboardInterrupt in the      *)
(* statement under way, here one of the three time.sleep.  It is no        *)
(* Exception, so neither except clause of main catches it: the process     *)
(* ends with the traceback, with the status the interpreter gives it.      *)
(***************************************************************************)
KeyboardInterrupt == [type |-> "KeyboardInterrupt", text |-> "", error |-> NoError]
\* the status of a process ended by KeyboardInterrupt: 1, or that of SIGINT
InterruptStatuses == {1, 130}

Interrupt ==
    /\ sleeping \/ pc \in {"retry_sleep", "verify_sleep"}
    /\ exc' = KeyboardInterrupt
    /\ pc' = "done"
    /\ sleeping' = FALSE
    /\ exitCode' \in InterruptStatuses
    /\ lastErr' = NoError
    /\ op' = ""
    /\ UNCHANGED history
    /\ UNCHANGED <<config, notifier, engine, instances, instance, called, apiRetries,
                   clock, files, marker, report>>

SignalNext == Next \/ Interrupt

SignalSpec == Init /\ [][SignalNext]_vars

(***************************************************************************)
(* The classification the specification states for a provider error, in    *)
(* its priority order; an absent message contains nothing.                 *)
(***************************************************************************)
classify(e) ==
    IF e.code = "LimitExceeded" THEN "QUOTA_EXCEEDED"
    ELSE IF \/ e.status \in {429, 500, 502, 503, 504}
            \/ e.code = "TooManyRequests"
            \/ (e.message # NoneText /\ Contains(<<"Out", "of", "host", "capacity">>, e.message))
        THEN "RETRYABLE"
    ELSE "FATAL"

\* the state launch_instance left when the provider answered it with an error
LaunchFailed == op = "launch_instance" /\ lastErr # NoError
\* the state launch_instance left when the provider accepted the launch
LaunchAccepted == op = "launch_instance" /\ lastErr = NoError
\* a step in which the finder, asked at place p, gives its answer
FinderAnswers(p) == pc = p /\ op' = "list_instances" /\ lastErr' = NoError
\* the run is over, or on its way out through the except clauses of main
Leaving == pc \in {"except", "notify_failure", "done"}

(***************************************************************************)
(* C1.  Every error the provider answers launch_instance with is handled   *)
(* by the priority rules: with code LimitExceeded the handler of the quota *)
(* (the finder) is entered whatever status and message are; otherwise with *)
(* a status of 429, 500, 502, 503, 504, or the code TooManyRequests, or a  *)
(* message holding "Out of host capacity", the loop waits to launch again; *)
(* every other error leaves the loop as an exception, and it is the        *)
(* provider's error itself when the error carries a message.               *)
(***************************************************************************)
C1_LaunchErrorPriority ==
    LaunchFailed =>
        CASE classify(lastErr) = "QUOTA_EXCEEDED" ->
               pc = "quota_check" /\ exc = NoException
          [] classify(lastErr) = "RETRYABLE" ->
               pc = "retry_sleep" /\ exc = NoException
          [] OTHER ->
               /\ pc = "except"
               /\ lastErr.message # NoneText => exc = ServiceError(lastErr)

\* LimitExceeded came with a retryable status and the capacity message, and the
\* quota handler was entered
C1_QuotaOverRetryReached ==
    /\ LaunchFailed
    /\ lastErr.code = "LimitExceeded"
    /\ lastErr.status = 429
    /\ Contains(OUT_OF_HOST_CAPACITY, lastErr.message)
    /\ pc = "quota_check"

(***************************************************************************)
(* C2.  A launch answered with code LimitExceeded is followed at once by   *)
(* the finder.  When the finder answers with an instance, the launch loop  *)
(* returns it, the marker of that instance is written and the run ends    *)
(* with exit code 0 unless its last notification raises; when it answers   *)
(* with none, the RuntimeError of the quota of another resource is raised. *)
(* After the finder's answer there is no other finder query and no launch. *)
(***************************************************************************)
C2_QuotaEntered ==
    /\ LaunchFailed /\ lastErr.code = "LimitExceeded" => pc = "quota_check" /\ ~sleeping
    /\ foundAt = "quota" /\ pc \in {"notify_created", "done"} =>
          /\ instance # None /\ marker = instance
          /\ INSTANCE_CREATED_FILE \in files
    /\ foundAt = "quota" /\ pc = "done" /\ exc = NoException => exitCode = 0

C2_QuotaStep ==
    /\ FinderAnswers("quota_check") =>
          IF instance' # None
            THEN pc' = "created" /\ foundAt' = "quota" /\ exc' = NoException
            ELSE pc' = "except" /\ exc' = RuntimeError(LIMIT_OTHER_TEXT)
    /\ quotaAt > 0 => launched' = launched
    /\ quotaAt > 0 /\ pc # "quota_check" => op' # "list_instances"

C2_QuotaThenFinderOnce == []C2_QuotaEntered /\ [][C2_QuotaStep]_vars

\* the second launch met LimitExceeded, the finder answered with an instance and
\* the run ended with exit code 0
C2_QuotaSuccessReached ==
    /\ quotaAt = 2 /\ Len(launched) = 2
    /\ foundAt = "quota"
    /\ pc = "done" /\ exitCode = 0
    /\ marker # None

(***************************************************************************)
(* C3.  A retryable error ends no run.  After a retryable error of         *)
(* launch_instance the loop waits and launches again, however many came    *)
(* before; after a retryable error of a call made through                  *)
(* _execute_api_call the wrapper waits and calls again; and no exception   *)
(* that reaches main, and no error file, is of a retryable provider error. *)
(***************************************************************************)
C3_RetryableState ==
    /\ LaunchFailed /\ classify(lastErr) = "RETRYABLE" =>
          pc = "retry_sleep" /\ exc = NoException
    /\ op \notin {"", "launch_instance"} /\ lastErr # NoError /\ classify(lastErr) = "RETRYABLE" =>
          sleeping /\ ~Leaving /\ exc = NoException
    /\ exc.type = "ServiceError" => classify(exc.error) # "RETRYABLE"
    /\ report.type = "ServiceError" => classify(report.error) # "RETRYABLE"

C3_RetryableStep ==
    /\ pc = "retry_sleep" => pc' = "attempt" /\ exc' = NoException
    /\ sleeping => ~sleeping' /\ pc' = pc /\ exc' = NoException

C3_RetryableNeverTerminal == []C3_RetryableState /\ [][C3_RetryableStep]_vars

\* two retryable launch errors in a row, and the loop about to launch again
C3_TwoRetriesReached ==
    /\ Len(launched) = 2
    /\ launched[1].result = "retry" /\ launched[2].result = "retry"
    /\ LaunchFailed /\ classify(lastErr) = "RETRYABLE"
    /\ lastErr.status = 400 /\ lastErr.code # "TooManyRequests"
    /\ pc = "retry_sleep"

(***************************************************************************)
(* C4.  An accepted launch is followed by the verification loop: at most 5 *)
(* rounds of the finder, each round that finds nothing followed by a wait  *)
(* of 60.  The loop returns at the first round in which the finder answers *)
(* with an instance; the RuntimeError of the verification is raised        *)
(* exactly when 5 rounds have found nothing, and no launch follows it.     *)
(***************************************************************************)
C4_ConfirmState ==
    /\ LaunchAccepted => pc = "verify" /\ poll = 0
    /\ pc \in {"verify", "verify_sleep"} => poll < 5 /\ launched[Len(launched)].result = "accepted"
    /\ poll <= 5
    /\ poll = 5 <=> (RuntimeError(VERIFICATION_TEXT) \in {exc, report})
    /\ foundAt = "verify" /\ pc \in {"notify_created", "done"} =>
          instance # None /\ marker = instance /\ INSTANCE_CREATED_FILE \in files

C4_ConfirmStep ==
    /\ FinderAnswers("verify") =>
          IF instance' # None
            THEN pc' = "created" /\ foundAt' = "verify" /\ clock' = clock /\ poll' = poll
            ELSE pc' = "verify_sleep" /\ poll' = poll
    /\ pc = "verify_sleep" =>
          /\ clock' = clock + 60
          /\ poll' = poll + 1
          /\ IF poll' = 5
               THEN pc' = "except" /\ exc' = RuntimeError(VERIFICATION_TEXT)
               ELSE pc' = "verify" /\ exc' = NoException
    /\ pc \in {"verify", "verify_sleep"} \/ poll = 5 => launched' = launched

C4_ConfirmFiveRounds == []C4_ConfirmState /\ [][C4_ConfirmStep]_vars

\* five rounds found nothing under a configured wait other than 60: the run
\* waited 300 and ended with the RuntimeError of the verification in the error file
C4_TimeoutReached ==
    /\ poll = 5
    /\ config.wait_time_secs # 60
    /\ clock = 300
    /\ report = RuntimeError(VERIFICATION_TEXT)
    /\ LOG_ERROR_FILE \in files
    /\ pc = "done" /\ exitCode = 1

(***************************************************************************)
(* C5.  The k-th launch_instance call of a run is made in the k-th value   *)
(* of the rotation over the availability domains found, the first call in  *)
(* the first domain.                                                       *)
(***************************************************************************)
C5_KthLaunchKthZone ==
    \A k \in DOMAIN launched : launched[k].ad = ads[((k - 1) % Len(ads)) + 1]

(***************************************************************************)
(* C6.  When the finder answers with an instance at start-up, the marker   *)
(* of that instance is written and the run ends, with exit code 0 unless   *)
(* its notification raises: launch_new_instance is not entered, so the     *)
(* availability domains, the subnets and the images are not listed and     *)
(* launch_instance is not called.                                          *)
(***************************************************************************)
C6_FoundAtStartupState ==
    foundAt = "startup" =>
        /\ instance # None /\ marker = instance
        /\ INSTANCE_CREATED_FILE \in files
        /\ launched = <<>>
        /\ called \cap {"list_availability_domains", "list_subnets", "list_images",
                        "launch_instance"} = {}
        /\ pc = "notify_found" \/ Leaving
        /\ pc = "done" /\ exc = NoException => exitCode = 0

C6_FoundAtStartupStep ==
    /\ FinderAnswers("startup_check") /\ instance' # None =>
          pc' = "notify_found" /\ foundAt' = "startup" /\ marker' = instance'
    /\ foundAt = "startup" => op' = ""

C6_FoundAtStartupNoLaunch == []C6_FoundAtStartupState /\ [][C6_FoundAtStartupStep]_vars

\* the second micro instance was found at start-up and the run ended with exit code 0
C6_FoundAtStartupReached ==
    /\ foundAt = "startup"
    /\ config.is_second_micro_instance
    /\ marker.id = 2
    /\ pc = "done" /\ exitCode = 0

(***************************************************************************)
(* The finder on its own (FinderSpec).                                     *)
(***************************************************************************)
\* the instances of a listing the specification calls qualifying
Qualifying ==
    SelectSeq(instances, LAMBDA inst :
        /\ inst.shape = config.compute_shape
        /\ inst.lifecycle_state \in {"RUNNING", "PROVISIONING", "STARTING"})

(***************************************************************************)
(* C7.  Whatever the provider lists, under both shapes and both settings   *)
(* of SECOND_MICRO_INSTANCE, an instance the finder returns is one of the  *)
(* listing, has the configured shape and is RUNNING, PROVISIONING or       *)
(* STARTING.                                                               *)
(***************************************************************************)
C7_FinderNeverWrong ==
    pc = "finder_done" /\ instance # None =>
        /\ instance \in Range(instances)
        /\ instance.shape = config.compute_shape
        /\ instance.lifecycle_state \in {"RUNNING", "PROVISIONING", "STARTING"}

\* the finder passed over a stopped instance of the shape and a running one of
\* the other shape, and returned the third
C7_PassedOverReached ==
    /\ pc = "finder_done"
    /\ Len(instances) = 3
    /\ instances[1].shape = config.compute_shape /\ instances[1].lifecycle_state = "STOPPED"
    /\ instances[2].shape # config.compute_shape /\ instances[2].lifecycle_state = "RUNNING"
    /\ instance = instances[3]

(***************************************************************************)
(* C8, as stated.  For every target shape: with SECOND_MICRO_INSTANCE set  *)
(* the finder returns the last qualifying instance listed when two or more *)
(* qualify and none otherwise; with it unset the finder returns the first  *)
(* qualifying instance listed when one or more qualify.                    *)
(***************************************************************************)
C8_OrdinalEveryShape ==
    pc = "finder_done" =>
        IF config.is_second_micro_instance
          THEN instance = IF Len(Qualifying) >= 2 THEN Qualifying[Len(Qualifying)] ELSE None
          ELSE instance = IF Len(Qualifying) >= 1 THEN Qualifying[1] ELSE None

(***************************************************************************)
(* C8, amended.  The setting counts for the micro shape only: there, when  *)
(* set, the finder returns the last qualifying instance listed if two or   *)
(* more qualify and none otherwise, and when unset the first one listed.   *)
(* For the ARM shape the finder returns the first qualifying instance      *)
(* listed, whatever the setting.                                           *)
(***************************************************************************)
C8_OrdinalMicroOnly ==
    pc = "finder_done" =>
        IF config.compute_shape = E2_MICRO_SHAPE /\ config.is_second_micro_instance
          THEN instance = IF Len(Qualifying) >= 2 THEN Qualifying[Len(Qualifying)] ELSE None
          ELSE instance = IF Len(Qualifying) >= 1 THEN Qualifying[1] ELSE None

\* three micro instances qualify and the second one is asked for: the last is returned
C8_LastOfThreeReached ==
    /\ pc = "finder_done"
    /\ config.compute_shape = E2_MICRO_SHAPE /\ config.is_second_micro_instance
    /\ Len(Qualifying) = 3
    /\ instance = instances[3]

(***************************************************************************)
(* C9.  A launch error that is neither of the quota nor retryable, and     *)
(* carries a message, leaves the loop at once as the exception of the      *)
(* provider's error itself: main writes that exception to the error file   *)
(* and exits with 1, and on the way no wait is made, the finder is not     *)
(* asked and launch_instance is not called.  A launch answered with code   *)
(* LimitExceeded is the last launch of its run.                            *)
(***************************************************************************)
C9_FatalState ==
    /\ LaunchFailed /\ classify(lastErr) = "FATAL" /\ lastErr.message # NoneText =>
          pc = "except" /\ exc = ServiceError(lastErr) /\ ~sleeping
    /\ quotaAt > 0 => Len(launched) = quotaAt
    /\ report # NoException => UNHANDLED_ERROR_FILE \in files \/ LOG_ERROR_FILE \in files
    /\ report # NoException /\ pc = "done" => exitCode = 1

C9_FatalStep ==
    /\ Leaving => /\ Leaving'
                  /\ clock' = clock
                  /\ op' = ""
                  /\ launched' = launched
    /\ pc = "except" => report' = exc
    /\ pc = "except" /\ exc.type = "ServiceError" => UNHANDLED_ERROR_FILE \in files'
    /\ report # NoException => report' = report

C9_FatalEndsRun == []C9_FatalState /\ [][C9_FatalStep]_vars

\* after one retry, the second launch met an error no rule retries: the run ended
\* with exit code 1 and that error in the error file, having waited once
C9_FatalReached ==
    /\ Len(launched) = 2
    /\ report.type = "ServiceError"
    /\ classify(report.error) = "FATAL"
    /\ report.error.code = "NotAuthorizedOrNotFound"
    /\ clock = config.wait_time_secs
    /\ UNHANDLED_ERROR_FILE \in files
    /\ pc = "done" /\ exitCode = 1

(***************************************************************************)
(* C10.  When no availability domain is left after the filter, the         *)
(* RuntimeError of the missing domains is raised and the run fails with    *)
(* it: list_subnets, list_images and launch_instance are never called.     *)
(***************************************************************************)
NoZones == RuntimeError(NO_ADS_TEXT)

C10_NoZonesFails ==
    /\ op = "list_availability_domains" /\ lastErr = NoError /\ ads = <<>> =>
          pc = "except" /\ exc = NoZones
    /\ NoZones \in {exc, report} =>
          /\ ads = <<>>
          /\ launched = <<>>
          /\ called \cap {"list_subnets", "list_images", "launch_instance"} = {}
          /\ Leaving
    /\ report = NoZones => LOG_ERROR_FILE \in files /\ (pc = "done" => exitCode = 1)
    /\ pc \in {"find_subnet", "find_image", "build", "attempt"} => ads # <<>>

\* the listing of the availability domains was answered, nothing was left of it,
\* and the run ended with exit code 1 and the RuntimeError in the error file
C10_NoZonesReached ==
    /\ "list_availability_domains" \in called
    /\ ads = <<>>
    /\ report = NoZones
    /\ called \cap {"list_subnets", "list_images", "launch_instance"} = {}
    /\ pc = "done" /\ exitCode = 1

(***************************************************************************)
(* C11.  A call made through _execute_api_call that the provider answers   *)
(* with code LimitExceeded is not retried, whatever status and message the *)
(* error has: the wrapper does not sleep and the error is raised to the    *)
(* caller; a retryable error is followed by the wrapper's sleep.           *)
(***************************************************************************)
\* the state a call made through _execute_api_call left when it met an error
WrappedCallFailed == op \notin {"", "launch_instance"} /\ lastErr # NoError

C11_WrapperQuotaNeverRetried ==
    /\ WrappedCallFailed /\ classify(lastErr) = "QUOTA_EXCEEDED" =>
          ~sleeping /\ (pc = "quota_check" \/ Leaving)
    /\ WrappedCallFailed /\ classify(lastErr) = "RETRYABLE" => sleeping

(***************************************************************************)
(* C12 (SignalSpec).  A run cancelled from outside at a wait ends as a     *)
(* failed run whose reason is the cancellation: launch_instance is not     *)
(* called again, one of the error files is written with the cancellation   *)
(* as its reason, and the process exits with 1.                            *)
(***************************************************************************)
C12_CancelledIsReported ==
    exc = KeyboardInterrupt =>
        /\ pc = "done"
        /\ report = KeyboardInterrupt
        /\ LOG_ERROR_FILE \in files \/ UNHANDLED_ERROR_FILE \in files
        /\ exitCode = 1

(***************************************************************************)
(* C13.  A finished run that found or created an instance (the marker is   *)
(* written) has exit code 0, and a finished run that did not has exit      *)
(* code 1.                                                                 *)
(***************************************************************************)
C13_ExitCodeTellsOutcome ==
    pc = "done" =>
        /\ marker # None => exitCode = 0
        /\ marker = None => exitCode = 1

(***************************************************************************)
(* C14.  A notification, whether it is sent or fails, leaves the run on    *)
(* the course of a notification that was sent: after the one of the start  *)
(* the OciManager is set up, after the one of a found or created instance  *)
(* the run ends with exit code 0, and after the one of a failure the run   *)
(* ends with exit code 1 and the exception it was reporting.               *)
(***************************************************************************)
C14_NotificationStep ==
    /\ pc = "notify_start" => pc' = "oci_manager" /\ exc' = NoException
    /\ pc \in {"notify_found", "notify_created"} =>
          pc' = "done" /\ exitCode' = 0 /\ exc' = NoException
    /\ pc = "notify_failure" => pc' = "done" /\ exitCode' = 1 /\ exc' = exc

C14_NotificationNeverAborts == [][C14_NotificationStep]_vars

(***************************************************************************)
(* C15.  With n availability domains found, any n launch_instance calls in *)
(* a row of a run are made in n different domains, that is in each of the  *)
(* domains once; and while the loop runs the cycler has a next element.    *)
(***************************************************************************)
C15_RotationNeverSkips ==
    /\ \A i \in 1..(Len(launched) - Len(ads) + 1) :
          {launched[j].ad : j \in i..(i + Len(ads) - 1)} = Range(ads)
    /\ \A k \in DOMAIN launched : launched[k].ad \in Range(ads)
    /\ pc \in {"attempt", "retry_sleep"} => ads # <<>> /\ ad_cycler \in 0..(Len(ads) - 1)

\* three launches over two domains: the rotation wrapped, and both windows of two
\* launches hold both domains
C15_WrappedReached ==
    /\ Len(ads) = 2
    /\ Len(launched) = 3
    /\ launched[1].ad = launched[3].ad
    /\ launched[1].ad # launched[2].ad

(***************************************************************************)
(* C16.  The launch details are built once in a run, before the first      *)
(* launch_instance call, and from then on no step changes any of their     *)
(* fields but the availability domain: shape, display name, image, subnet, *)
(* boot volume size, public key, shape_config and the public-IP flag of    *)
(* every launch_instance call are those of the details as built.           *)
(***************************************************************************)
C16_TemplateState ==
    /\ launched # <<>> => launch_details # NoDetails
    /\ op = "launch_instance" =>
          /\ launch_details.availability_domain = launched[Len(launched)].ad
          /\ launch_details.shape = config.compute_shape
          /\ launch_details.subnet_id = subnet_id /\ subnet_id # ""
          /\ launch_details.image_id = image_id /\ image_id # ""
          /\ launch_details.display_name # ""
          /\ launch_details.ssh_authorized_keys # ""
          /\ launch_details.boot_volume_size_in_gbs >= 50

C16_TemplateStep ==
    /\ launch_details = NoDetails /\ launch_details' # NoDetails => pc = "build"
    /\ launch_details # NoDetails =>
          launch_details' =
              [launch_details EXCEPT !.availability_domain = launch_details'.availability_domain]

C16_OneTemplate == []C16_TemplateState /\ [][C16_TemplateStep]_vars

\* two launches were made in two availability domains with the details as built
C16_TwoLaunchesReached ==
    /\ Len(launched) = 2
    /\ launched[1].ad # launched[2].ad
    /\ op = "launch_instance"
    /\ launch_details.availability_domain = launched[2].ad
    /\ launch_details.subnet_id = "subnet-1"
    /\ launch_details.image_id = "image-2"

(***************************************************************************)
(* C17.  Launches are made one at a time and paced: a step makes at most   *)
(* one launch_instance call and leaves the place of the launch; after a    *)
(* retryable launch error the loop is at its wait; and once a launch was   *)
(* made, the only step back to the place of the launch is the completed    *)
(* wait of the configured REQUEST_WAIT_TIME_SECS, so a wait of that length *)
(* lies between any two launches of a run.                                 *)
(***************************************************************************)
C17_PacedState ==
    /\ LaunchFailed /\ classify(lastErr) = "RETRYABLE" => pc = "retry_sleep" /\ ~sleeping
    /\ op = "launch_instance" => pc # "attempt"

C17_PacedStep ==
    /\ launched' # launched =>
          /\ pc = "attempt" /\ pc' # "attempt"
          /\ op' = "launch_instance"
          /\ launched = SubSeq(launched', 1, Len(launched') - 1)
          /\ clock' = clock
    /\ pc' = "attempt" /\ launched # <<>> =>
          /\ pc = "retry_sleep"
          /\ clock' = clock + config.wait_time_secs
          /\ launched' = launched
    /\ pc = "retry_sleep" => pc' = "attempt"

C17_SequentialAndPaced == []C17_PacedState /\ [][C17_PacedStep]_vars

\* under a configured wait of 30, a second launch was made 30 after the first
C17_SecondLaunchReached ==
    /\ config.wait_time_secs = 30
    /\ Len(launched) = 2
    /\ op = "launch_instance"
    /\ apiRetries = 0
    /\ clock = 30

(***************************************************************************)
(* C18.  A run ends once the provider stops answering with RETRYABLE       *)
(* errors.  The run goes back only through its two waits, that of the      *)
(* wrapper and that of the launch loop; the claim holds only if each such  *)
(* wait is the answer to a RETRYABLE error, so that finitely many of those *)
(* errors allow finitely many waits: every step that enters a wait does so *)
(* on an error the specification classifies RETRYABLE.                     *)
(***************************************************************************)
C18_WaitStep ==
    /\ ~sleeping /\ sleeping' => lastErr' # NoError /\ classify(lastErr') = "RETRYABLE"
    /\ pc # "retry_sleep" /\ pc' = "retry_sleep" =>
          lastErr' # NoError /\ classify(lastErr') = "RETRYABLE"

C18_OnlyRetryableErrorsDelay == [][C18_WaitStep]_vars

(***************************************************************************)
(* C19.  At most one launch_instance call of a run is accepted, and it is  *)
(* the last one: after it, whatever the finder answers or raises in the    *)
(* verification loop, the run never stands at the launch or at the wait    *)
(* of the launch loop again, and launch_instance is not called.            *)
(***************************************************************************)
Accepted == launched # <<>> /\ launched[Len(launched)].result = "accepted"

C19_AcceptedState ==
    /\ \A k \in DOMAIN launched : launched[k].result = "accepted" => k = Len(launched)
    /\ Accepted => pc \notin {"attempt", "retry_sleep"}

C19_AcceptedStep ==
    Accepted => launched' = launched /\ op' # "launch_instance"

C19_OneAcceptedLaunch == []C19_AcceptedState /\ [][C19_AcceptedStep]_vars

\* after a retried launch and an accepted one, a round of the verification met
\* LimitExceeded and the quota handler was entered, with a launch still within the bound
C19_PollQuotaReached ==
    /\ Len(launched) = 2 /\ Accepted
    /\ op = "list_instances"
    /\ lastErr.code = "LimitExceeded"
    /\ pc = "quota_check"

(***************************************************************************)
(* C20.  The files a run writes exclude one another: a run that wrote      *)
(* INSTANCE_CREATED wrote neither ERROR_IN_CONFIG.log nor                  *)
(* UNHANDLED_ERROR.log, and no run wrote both of these.                    *)
(***************************************************************************)
C20_OutcomeFilesExclusive ==
    /\ INSTANCE_CREATED_FILE \in files =>
          LOG_ERROR_FILE \notin files /\ UNHANDLED_ERROR_FILE \notin files
    /\ ~(LOG_ERROR_FILE \in files /\ UNHANDLED_ERROR_FILE \in files)

(***************************************************************************)
(* C21.  The classification of a provider error never raises: whatever the *)
(* error, also one without a message or without a code, the exception in   *)
(* flight after it is never one of the classification itself, and an error *)
(* that is neither of the quota nor retryable is raised as it is, by the   *)
(* launch loop and by _execute_api_call alike.                             *)
(***************************************************************************)
C21_ClassificationTotal ==
    /\ exc.type # "TypeError" /\ report.type # "TypeError"
    /\ lastErr # NoError /\ classify(lastErr) = "FATAL" =>
          pc = "except" /\ exc = ServiceError(lastErr) /\ ~sleeping

====
